---- MODULE Spec2Model ----
(***************************************************************************)
(* TDLearningAgent of src/src/td_learning.py: the tabular TD(0) agent for  *)
(* Easy21.  The two tables are the numpy arrays in C order, each held as   *)
(* the function from the flat positions of its non-zero elements to their  *)
(* values (every other position of 0 .. TableSize-1 holds zero, as         *)
(* np.zeros made it), with the index arithmetic of shape                   *)
(* (11, 22, n_actions).  The three deques are sequences of at most two     *)
(* items, and values are exact rationals <<numerator, denominator>>: the   *)
(* arithmetic of the update without float rounding.                        *)
(***************************************************************************)
EXTENDS Integers, Sequences, FiniteSets, TLC

(* ---------------------------------------------------------------- bounds *)

\* Reward-carrying calls (those that return and those that raise), per
\* behaviour.
MaxRewardCalls == 2

\* The same, in the behaviours that have other calls (take_action on its
\* own, save, load) between those of the training loop, and in those
\* whose states may lie outside the tables.
MaxRewardCallsMixed == 1

\* The same, in the behaviours that follow the rewards of a call that
\* raised through the updates after it.
MaxRewardCallsStale == 3

\* The most pairs a caller records in its episode, in the behaviours of
\* two callers.
MaxPairs == 2

\* The states the environment supplies: (dealer, player) pairs.
StateInputs == {<<0, 0>>, <<0, 1>>}

\* The states a caller that breaks the contract supplies: a state of the
\* tables, a dealer card past the tables, a player sum past the tables, a
\* negative dealer card, and a dealer card past the flattened tables.
StateInputsAny == {<<0, 0>>, <<11, 0>>, <<0, 22>>, <<-1, 0>>, <<484, 0>>}

\* The state supplied in the behaviours that follow stale rewards.
StateInputsStale == {<<0, 0>>}

\* The state supplied in the behaviours of two callers.
StateInputsRace == {<<0, 0>>}

\* The rewards supplied in the behaviours of two callers.
RewardValuesRace == {0, 1}

\* The two callers that drive one agent in those behaviours.
Callers == {1, 2}

\* The rewards the environment supplies.
RewardValues == {-1, 0, 1}

\* The discount factors the agent is constructed with (gamma=1 by default).
GammaInputs == {<<1, 1>>, <<1, 2>>}

(* ------------------------------------------------------------- constants *)

\* np.zeros((11, 22, self._n_actions))
DealerDim == 11
PlayerDim == 22
\* len(possible_actions): Easy21 has the two actions hit and stick.
NActions == 2
\* n_0=100
N0 == 100
\* deque([], 2)
MaxLenDeque == 2

TableSize == DealerDim * PlayerDim * NActions
Cells == 0 .. (TableSize - 1)
ActionIds == 0 .. (NActions - 1)

\* An optional value: None is <<>>, a value v is <<v>>.
None == <<>>
Some(v) == <<v>>
RewardInputs == {None} \cup {Some(r) : r \in RewardValues}

(* ------------------------------------------------------------- rationals *)

Abs(n) == IF n < 0 THEN -n ELSE n

RECURSIVE GCD(_, _)
GCD(a, b) == IF b = 0 THEN a ELSE GCD(b, a % b)

\* n/d with d # 0, in lowest terms with a positive denominator.
Frac(n, d) ==
    LET s == IF d < 0 THEN -1 ELSE 1
        g == GCD(Abs(n), Abs(d))
    IN  <<(s * n) \div g, (s * d) \div g>>

Zero == <<0, 1>>
One == <<1, 1>>
FromInt(n) == <<n, 1>>
RAdd(x, y) == Frac(x[1] * y[2] + y[1] * x[2], x[2] * y[2])
RSub(x, y) == Frac(x[1] * y[2] - y[1] * x[2], x[2] * y[2])
RMul(x, y) == Frac(x[1] * y[1], x[2] * y[2])
RDivInt(x, n) == Frac(x[1], x[2] * n)
RLess(x, y) == x[1] * y[2] < y[1] * x[2]

(* ---------------------------------------------------------------- arrays *)

\* The flat (C order) position of element [d, p, a] of an array of shape
\* (DealerDim, PlayerDim, NActions).
Idx(d, p, a) == (d * PlayerDim + p) * NActions + a

\* Index i is within an axis of length n: numpy accepts -n .. n-1.
InAxis(i, n) == -n <= i /\ i < n

\* The position a valid index i denotes in an axis of length n: a
\* negative index counts from the end.
Wrap(i, n) == IF i < 0 THEN i + n ELSE i

\* A variant of Indexable for an array that raises for no index.
IndexableAlways(d, p) == TRUE

\* array[d, p, ...] does not raise IndexError.
Indexable(d, p) == InAxis(d, DealerDim) /\ InAxis(p, PlayerDim)

\* The flat position of the element array[d, p, a] denotes.
Index(d, p, a) == Idx(Wrap(d, DealerDim), Wrap(p, PlayerDim), a)

\* np.zeros(shape): no position holds a non-zero element.
Zeros == [i \in {} |-> 0]

\* arr.flat[i], for an array whose elements are zero by default.
Elem(arr, zero, i) == IF i \in DOMAIN arr THEN arr[i] ELSE zero

\* arr.flat[i] = v
Store(arr, zero, i, v) ==
    [k \in IF v = zero THEN DOMAIN arr \ {i} ELSE DOMAIN arr \cup {i} |->
        IF k = i THEN v ELSE arr[k]]

\* ndarray.take(indices) without an axis: the elements of the FLATTENED
\* array at the given positions; for a state (d, p) these are the two
\* elements flat[d] and flat[p].
Take(arr, zero, state) ==
    <<Elem(arr, zero, Wrap(state[1], TableSize)),
      Elem(arr, zero, Wrap(state[2], TableSize))>>

\* ndarray.take(state) raises IndexError (mode='raise'): a position is
\* outside the flattened array.
TakeRaises(state) ==
    ~InAxis(state[1], TableSize) \/ ~InAxis(state[2], TableSize)

\* np.argmax of a non-empty sequence: the first (0-based) position of a
\* largest element.
ArgMax(seq) ==
    CHOOSE i \in 0 .. (Len(seq) - 1) :
        /\ \A j \in 0 .. (Len(seq) - 1) : ~RLess(seq[i + 1], seq[j + 1])
        /\ \A j \in 0 .. (i - 1) : RLess(seq[j + 1], seq[i + 1])

RECURSIVE SeqSum(_)
SeqSum(seq) == IF seq = <<>> THEN 0 ELSE Head(seq) + SeqSum(Tail(seq))

\* deque(maxlen=2).append: the oldest item is dropped from a full deque.
DequeAppend(dq, x) ==
    IF Len(dq) = MaxLenDeque THEN Append(Tail(dq), x) ELSE Append(dq, x)

\* ndarray.tolist(): the nested list [d][p][a] (1-based here).
ToList(arr, zero) ==
    [d \in 1 .. DealerDim |->
        [p \in 1 .. PlayerDim |->
            [a \in 1 .. NActions |->
                Elem(arr, zero, Idx(d - 1, p - 1, a - 1))]]]

\* np.asarray(nested list): the array whose shape is that of the list.
AsArray(lst, zero) ==
    LET np == Len(lst[1])
        na == Len(lst[1][1])
        flat == [i \in 0 .. (Len(lst) * np * na - 1) |->
                    lst[(i \div (np * na)) + 1][((i \div na) % np) + 1]
                       [(i % na) + 1]]
    IN  [i \in {j \in DOMAIN flat : flat[j] # zero} |-> flat[i]]

(* ----------------------------------------------------------------- state *)

VARIABLES
    state_action_values,   \* self._state_action_values
    state_action_visits,   \* self._state_action_visits
    dtype,                 \* the dtype of the two tables
    past_states,           \* self._past_states
    past_actions,          \* self._past_actions (action ids)
    past_returns,          \* self._past_returns
    gamma,                 \* self._gamma
    file,                  \* the pickle file: None or Some(pickled agent)
    call,                  \* the last call: its arguments and its outcome
    applied,               \* history: per cell, the targets applied to it
    rewardCalls,           \* history: reward-carrying calls that returned
    failures,              \* history: calls that have raised an error
    episode,               \* history: the calls since the buffers were empty
    callers,               \* per caller: its position in observe_and_act
    owners,                \* history: who recorded each pair, pushed each reward
    race                   \* history: what the callers did to each other

agent == <<state_action_values, state_action_visits, dtype, past_states,
           past_actions, past_returns, gamma>>
history == <<applied, rewardCalls, failures, episode>>
threads == <<callers, owners, race>>
vars == <<agent, file, call, history, threads>>

\* Q[i] and N[i] of the agent, by flat position.
Q(i) == Elem(state_action_values, Zero, i)
N(i) == Elem(state_action_visits, 0, i)

\* The record of a call: its arguments, the number of pairs held and the
\* epsilon computed when it was made, the number of pairs a save made just
\* before it discarded, the reward its update popped, and what it
\* returned or raised.
NoCall == [op |-> "__init__", state |-> None, reward |-> None,
           terminate |-> FALSE, explore |-> FALSE, held |-> 0,
           discarded |-> 0, epsilon |-> Zero, popped |-> None,
           ret |-> None, error |-> ""]

\* No target applied to any cell yet.
NoTargets == [c \in {} |-> [n |-> 0, sum |-> Zero]]

\* The calls made since the buffers were last empty: whether they are the
\* calls of a well-formed episode so far (a first call that does not
\* terminate and carries no reward, then calls that carry a reward), how
\* many of them recorded a pair, how many updates they made, and whether
\* the last of them terminated.
NoEpisode == [wellFormed |-> TRUE, pairs |-> 0, updates |-> 0,
              done |-> FALSE]
Malformed == [wellFormed |-> FALSE, pairs |-> 0, updates |-> 0,
              done |-> FALSE]

\* A caller outside observe_and_act that has made no call yet: the
\* non-terminating calls left in its episode, the calls it has begun, and
\* the arguments of the call it is in.
Idle == [pc |-> "idle", left |-> 0, begun |-> 0, state |-> None,
         reward |-> None, terminate |-> FALSE]

\* No pair and no reward is held, so none has an owner.
NoOwners == [states |-> <<>>, returns |-> <<>>]

\* Nothing has happened between the callers: no step was taken while the
\* other caller's episode was under way, no update paired a reward with
\* a pair of another caller, no termination cleared a pair of another
\* caller, and no call has raised.
NoRace == [interleaved |-> FALSE, mixed |-> FALSE, stolen |-> FALSE,
           failed |-> FALSE]

\* __init__
Init ==
    /\ state_action_values = Zeros
    /\ state_action_visits = Zeros
    /\ dtype = "float32"
    /\ past_states = <<>>
    /\ past_actions = <<>>
    /\ past_returns = <<>>
    /\ gamma \in GammaInputs
    /\ file = None
    /\ call = NoCall
    /\ applied = NoTargets
    /\ rewardCalls = 0
    /\ failures = 0
    /\ episode = NoEpisode
    /\ callers = [c \in Callers |-> Idle]
    /\ owners = NoOwners
    /\ race = NoRace

(* ----------------------------------------------------------- take_action *)

\* epsilon = n_0 / (n_0 + self._state_action_visits.take(state).sum())
Epsilon(state) ==
    Frac(N0, N0 + SeqSum(Take(state_action_visits, 0, state)))

\* np.argmax(self._state_action_values.take(state))
GreedyActionId(state) == ArgMax(Take(state_action_values, Zero, state))

\* The action ids take_action can return.  random.random() is any number
\* of [0, 1): the draw can fall below epsilon when epsilon > 0, and can
\* fail to when epsilon < 1.
TakeActionIds(state, explore) ==
    LET eps == Epsilon(state)
    IN  {id \in ActionIds : explore /\ RLess(Zero, eps)}
        \cup {id \in {GreedyActionId(state)} : ~explore \/ RLess(eps, One)}

\* A variant of TakeAction that counts a visit of the action it returns.
TakeActionCounting(state, explore) ==
    /\ \E id \in TakeActionIds(state, explore) :
           /\ call' = [NoCall EXCEPT !.op = "take_action",
                                     !.state = Some(state),
                                     !.explore = explore,
                                     !.held = Len(past_states),
                                     !.epsilon = Epsilon(state),
                                     !.ret = Some(id)]
           /\ state_action_visits' =
                  Store(state_action_visits, 0, Idx(state[1], state[2], id),
                        N(Idx(state[1], state[2], id)) + 1)
    /\ UNCHANGED <<state_action_values, dtype, past_states, past_actions,
                   past_returns, gamma, file, history, threads>>

\* take_action(state, explore), called on its own.
TakeAction(state, explore) ==
    /\ IF TakeRaises(state)
       THEN call' = [NoCall EXCEPT !.op = "take_action",
                                   !.state = Some(state),
                                   !.explore = explore,
                                   !.held = Len(past_states),
                                   !.error = "IndexError"]
       ELSE \E id \in TakeActionIds(state, explore) :
                call' = [NoCall EXCEPT !.op = "take_action",
                                       !.state = Some(state),
                                       !.explore = explore,
                                       !.held = Len(past_states),
                                       !.epsilon = Epsilon(state),
                                       !.ret = Some(id)]
    /\ UNCHANGED <<agent, file, history, threads>>

(* --------------------------------------------------------------- _update *)

\* A variant of TDTarget that forgets the discount.
TDTargetUndiscounted(r, g, qnext) == RAdd(FromInt(r), qnext)

\* r + gamma * q(s', a')
TDTarget(r, g, qnext) == RAdd(FromInt(r), RMul(g, qnext))

\* A variant of Increment that does not subtract the current estimate.
IncrementNoBaseline(q, target, n) == RAdd(q, RDivInt(target, n))

\* q += (target - q) / n
Increment(q, target, n) == RAdd(q, RDivInt(RSub(target, q), n))

\* A variant of UpdatedCell that writes the older pair also when terminating.
UpdatedCellOlder(terminate, old, new) == old

\* A variant of UpdatedCell that always writes the newer pair.
UpdatedCellNewer(terminate, old, new) == new

\* The position _update writes: that of the newer pair (d_H_1, p_H_1, a_1)
\* when terminating, that of the older pair (d_H, p_H, a) otherwise.
UpdatedCell(terminate, old, new) == IF terminate THEN new ELSE old

\* A variant of PopLeft that removes the newest reward, not the oldest.
PopRight(pr) == SubSeq(pr, 1, Len(pr) - 1)

\* A variant of PopLeft that reads the oldest reward and leaves it queued.
PopLeftPeek(pr) == pr

\* r = past_returns.popleft(): what is left in the deque.
PopLeft(pr) == Tail(pr)

\* The history lacks a pair _update reads: past_states[0] or
\* past_states[1] of the else branch is out of range.
LacksHistory(terminate, ps) == ~(terminate /\ Len(ps) = 1) /\ Len(ps) < 2

\* A variant of Update that returns without updating when the history lacks
\* a pair it reads.
UpdateSkipping(terminate, ps, pa, pr) ==
    IF LacksHistory(terminate, ps)
    THEN [error |-> "", values |-> state_action_values,
          visits |-> state_action_visits, returns |-> pr, popped |-> None]
    ELSE LET c == IF terminate THEN Idx(ps[Len(ps)][1], ps[Len(ps)][2],
                                        pa[Len(pa)])
                  ELSE Idx(ps[1][1], ps[1][2], pa[1])
         IN  [error |-> "",
              values |-> Store(state_action_values, Zero, c,
                               RAdd(Q(c), RDivInt(RSub(FromInt(Head(pr)), Q(c)),
                                                  N(c) + 1))),
              visits |-> Store(state_action_visits, 0, c, N(c) + 1),
              returns |-> Tail(pr), popped |-> Some(Head(pr))]

\* _update(terminate) on the deques ps, pa, pr and the tables: the new
\* tables and reward deque, and the error raised if any.  A history that
\* lacks a pair raises before the reward is popped; a pair that does not
\* index the tables raises after it, where the pair is first used: in
\* the non-terminating branch the older pair at the increment of N, the
\* newer pair at the read of Q that follows that increment.
Update(terminate, ps, pa, pr) ==
    LET single == terminate /\ Len(ps) = 1
    IN  IF LacksHistory(terminate, ps)
        THEN [error |-> "IndexError", values |-> state_action_values,
              visits |-> state_action_visits, returns |-> pr,
              popped |-> None]
        ELSE
            LET newPair == IF single THEN <<ps[1][1], ps[1][2], pa[1]>>
                           ELSE <<ps[2][1], ps[2][2], pa[2]>>
                oldPair == <<ps[1][1], ps[1][2], pa[1]>>
                pair == UpdatedCell(terminate, oldPair, newPair)
                new == Index(newPair[1], newPair[2], newPair[3])
                c == Index(pair[1], pair[2], pair[3])
                newOk == Indexable(newPair[1], newPair[2])
                cOk == Indexable(pair[1], pair[2])
                r == Head(pr)
                n == N(c) + 1
                target == IF terminate THEN FromInt(r)
                          ELSE TDTarget(r, gamma, Q(new))
            IN  IF ~cOk
                THEN [error |-> "IndexError",
                      values |-> state_action_values,
                      visits |-> state_action_visits,
                      returns |-> PopLeft(pr), popped |-> Some(r)]
                ELSE IF ~terminate /\ ~newOk
                THEN [error |-> "IndexError",
                      values |-> state_action_values,
                      visits |-> Store(state_action_visits, 0, c, n),
                      returns |-> PopLeft(pr), popped |-> Some(r)]
                ELSE [error |-> "",
                      values |-> Store(state_action_values, Zero, c,
                                       Increment(Q(c), target, n)),
                      visits |-> Store(state_action_visits, 0, c, n),
                      returns |-> PopLeft(pr),
                      popped |-> Some(r)]

(* ------------------------------------------------------- observe_and_act *)

\* A variant of Memorize on a deque that has no maximal length.
MemorizeUnbounded(dq, x) == Append(dq, x)

\* _memorize(state, action): a deque with one more item.
Memorize(dq, x) == DequeAppend(dq, x)

\* A variant of ClearCache that never clears.
ClearCacheNever(terminate, dq) == dq

\* if terminate: self._clear_cache(): a deque as the call leaves it.
ClearCache(terminate, dq) == IF terminate THEN <<>> ELSE dq

\* One more target applied to cell c.
Record(c, target) ==
    [k \in DOMAIN applied \cup {c} |->
        IF k = c
        THEN IF c \in DOMAIN applied
             THEN [n |-> applied[c].n + 1, sum |-> RAdd(applied[c].sum, target)]
             ELSE [n |-> 1, sum |-> target]
        ELSE applied[k]]

\* The calls since the buffers were empty, after one more call that left
\* the visit counts as visits.
Extended(reward, terminate, visits) ==
    LET prev == IF past_states = <<>> /\ past_returns = <<>>
                THEN NoEpisode ELSE episode
        first == prev.pairs = 0
        written == {c \in DOMAIN visits \cup DOMAIN state_action_visits :
                       Elem(visits, 0, c) # N(c)}
    IN  IF prev.wellFormed /\ (IF first THEN ~terminate /\ reward = None
                                        ELSE reward # None)
        THEN [wellFormed |-> TRUE,
              pairs |-> IF terminate THEN prev.pairs ELSE prev.pairs + 1,
              updates |-> prev.updates + Cardinality(written),
              done |-> terminate]
        ELSE Malformed

\* observe_and_act(state, reward, terminate)
ObserveAndAct(state, reward, terminate) ==
    /\ \E action \in (IF terminate \/ TakeRaises(state) THEN {None}
                      ELSE {Some(id) : id \in TakeActionIds(state, TRUE)}) :
        LET raised == ~terminate /\ TakeRaises(state)
            ps == IF terminate THEN past_states
                  ELSE Memorize(past_states, state)
            pa == IF terminate THEN past_actions
                  ELSE Memorize(past_actions, action[1])
            pr == IF reward = None THEN past_returns
                  ELSE DequeAppend(past_returns, reward[1])
            upd == IF raised
                   THEN [error |-> "IndexError",
                         values |-> state_action_values,
                         visits |-> state_action_visits,
                         returns |-> past_returns, popped |-> None]
                   ELSE IF reward = None
                   THEN [error |-> "", values |-> state_action_values,
                         visits |-> state_action_visits, returns |-> pr,
                         popped |-> None]
                   ELSE Update(terminate, ps, pa, pr)
            ok == upd.error = ""
            \* history: the pair recorded last before this call and the
            \* target this call passes for it
            last == Len(past_states)
            cell == Index(past_states[last][1], past_states[last][2],
                          past_actions[last])
            target == IF terminate THEN FromInt(reward[1])
                      ELSE RAdd(FromInt(reward[1]),
                                RMul(gamma,
                                     Q(Index(state[1], state[2], action[1]))))
        IN  /\ state_action_values' = upd.values
            /\ state_action_visits' = upd.visits
            /\ past_states' = IF ok THEN ClearCache(terminate, ps)
                              ELSE IF raised THEN past_states ELSE ps
            /\ past_actions' = IF ok THEN ClearCache(terminate, pa)
                               ELSE IF raised THEN past_actions ELSE pa
            /\ past_returns' = IF ok THEN ClearCache(terminate, upd.returns)
                               ELSE upd.returns
            /\ call' = [op |-> "observe_and_act", state |-> Some(state),
                        reward |-> reward, terminate |-> terminate,
                        explore |-> ~terminate, held |-> Len(past_states),
                        discarded |-> IF call.op = "save" THEN call.held
                                      ELSE 0,
                        epsilon |-> IF terminate \/ raised THEN Zero
                                    ELSE Epsilon(state),
                        popped |-> upd.popped,
                        ret |-> IF ok THEN action ELSE None,
                        error |-> upd.error]
            /\ applied' = IF ok /\ reward # None /\ last > 0
                          THEN Record(cell, target)
                          ELSE applied
            /\ rewardCalls' = IF ok /\ reward # None THEN rewardCalls + 1
                              ELSE rewardCalls
            /\ failures' = IF ok THEN failures ELSE failures + 1
            /\ episode' = Extended(reward, terminate, upd.visits)
    /\ UNCHANGED <<dtype, gamma, file, threads>>

(* ---------------------------------------------------------- save and load *)

\* _save_local(output_dir, iteration, extension='pkl'): the pickle of the
\* agent as it is when called, its tables being nested lists.
SaveLocal(values, visits) ==
    [state_action_values |-> values, state_action_visits |-> visits,
     past_states |-> <<>>, past_actions |-> <<>>, past_returns |-> <<>>,
     gamma |-> gamma, applied |-> applied, rewardCalls |-> rewardCalls]

\* A variant of Save that does not clear the buffers.
SaveKeepingHistory ==
    LET values == ToList(state_action_values, Zero)
        visits == ToList(state_action_visits, 0)
    IN  /\ file' = Some(SaveLocal(values, visits))
        /\ state_action_values' = AsArray(values, Zero)
        /\ state_action_visits' = AsArray(visits, 0)
        /\ dtype' = "float64"
        /\ call' = [NoCall EXCEPT !.op = "save", !.held = Len(past_states)]
        /\ UNCHANGED <<past_states, past_actions, past_returns, gamma,
                       history, threads>>

\* save(output_dir, iteration)
Save ==
    LET values == ToList(state_action_values, Zero)
        visits == ToList(state_action_visits, 0)
    IN  /\ past_states' = <<>>
        /\ past_actions' = <<>>
        /\ past_returns' = <<>>
        /\ file' = Some(SaveLocal(values, visits))
        /\ state_action_values' = AsArray(values, Zero)
        /\ state_action_visits' = AsArray(visits, 0)
        /\ dtype' = "float64"
        /\ call' = [NoCall EXCEPT !.op = "save", !.held = Len(past_states)]
        /\ UNCHANGED <<gamma, history, threads>>

\* A variant of Loaded that leaves the tables the nested lists they were
\* pickled as.
LoadedAsPickled(pickled) == pickled

\* The agent load returns for a pickle.
Loaded(pickled) ==
    [pickled EXCEPT
        !.state_action_values = AsArray(pickled.state_action_values, Zero),
        !.state_action_visits = AsArray(pickled.state_action_visits, 0)]

\* agent = TDLearningAgent.load(fname)
Load ==
    /\ file # None
    /\ LET a == Loaded(file[1])
       IN  /\ state_action_values' = a.state_action_values
           /\ state_action_visits' = a.state_action_visits
           /\ past_states' = a.past_states
           /\ past_actions' = a.past_actions
           /\ past_returns' = a.past_returns
           /\ gamma' = a.gamma
           /\ applied' = a.applied
           /\ rewardCalls' = a.rewardCalls
    /\ dtype' = "float64"
    /\ call' = [NoCall EXCEPT !.op = "load", !.held = Len(past_states)]
    /\ UNCHANGED <<file, failures, episode, threads>>

(* -------------------------------------------------------- specifications *)

\* The training loop: any call, at most maxRewardCalls of them carrying a
\* reward.
Step(maxRewardCalls) ==
    \E s \in StateInputs, r \in RewardInputs, t \in BOOLEAN :
        /\ r # None => rewardCalls + failures < maxRewardCalls
        /\ ObserveAndAct(s, r, t)

Next == Step(MaxRewardCalls)

Spec == Init /\ [][Next]_vars

\* The training loop, and take_action called on its own between its calls.
NextTake ==
    \/ Step(MaxRewardCallsMixed)
    \/ \E s \in StateInputs, e \in BOOLEAN : TakeAction(s, e)

SpecTake == Init /\ [][NextTake]_vars

\* The training loop with save and load between its calls.
NextSave ==
    \/ Step(MaxRewardCallsMixed)
    \/ Save
    \/ Load

SpecSave == Init /\ [][NextSave]_vars

\* A training loop over one state, with room for a call that raises and
\* two updates after it.
StepStale(maxRewardCalls) ==
    \E s \in StateInputsStale, r \in RewardInputs, t \in BOOLEAN :
        /\ r # None => rewardCalls + failures < maxRewardCalls
        /\ ObserveAndAct(s, r, t)

NextStale == StepStale(MaxRewardCallsStale)

SpecStale == Init /\ [][NextStale]_vars

\* A training loop that breaks the contract on states: any call, with
\* states inside and outside the tables; at most maxRewardCalls calls
\* carry a reward or raise.
StepAnyState(maxRewardCalls) ==
    \E s \in StateInputsAny, r \in RewardInputs, t \in BOOLEAN :
        /\ (r # None \/ (~t /\ TakeRaises(s)))
               => rewardCalls + failures < maxRewardCalls
        /\ ObserveAndAct(s, r, t)

NextAnyState == StepAnyState(MaxRewardCallsMixed)

SpecAnyState == Init /\ [][NextAnyState]_vars

(* ------------------------------------------------------------ two callers *)

\* The caller's episode is under way: it has begun a call and has neither
\* finished its episode nor seen a call raise.
Busy(c) == callers[c].begun > 0 /\ callers[c].pc \notin {"done", "failed"}

\* Caller c takes a step: the step is interleaved if the episode of
\* another caller is under way.
Stepped(c) ==
    [race EXCEPT !.interleaved = @ \/ \E o \in Callers \ {c} : Busy(o)]

\* Caller c calls observe_and_act: the first call of its episode is
\* non-terminating and carries no reward, the later ones carry a reward,
\* and the last one terminates.
Begin(c) ==
    /\ callers[c].pc = "idle"
    /\ IF callers[c].begun = 0
       THEN \E k \in 1 .. MaxPairs, s \in StateInputsRace :
                callers' = [callers EXCEPT ![c] =
                    [pc |-> "record", left |-> k - 1, begun |-> 1,
                     state |-> Some(s), reward |-> None,
                     terminate |-> FALSE]]
       ELSE IF callers[c].left > 0
       THEN \E s \in StateInputsRace, r \in RewardValuesRace :
                callers' = [callers EXCEPT ![c] =
                    [pc |-> "record", left |-> @.left - 1,
                     begun |-> @.begun + 1, state |-> Some(s),
                     reward |-> Some(r), terminate |-> FALSE]]
       ELSE \E r \in RewardValuesRace :
                callers' = [callers EXCEPT ![c] =
                    [pc |-> "push", left |-> 0, begun |-> @.begun + 1,
                     state |-> None, reward |-> Some(r),
                     terminate |-> TRUE]]
    /\ race' = Stepped(c)
    /\ UNCHANGED <<agent, file, call, history, owners>>

\* if not terminate: action = self.take_action(state);
\* self._memorize(state, action)
RecordPair(c) ==
    /\ callers[c].pc = "record"
    /\ \E id \in TakeActionIds(callers[c].state[1], TRUE) :
           /\ past_states' = Memorize(past_states, callers[c].state[1])
           /\ past_actions' = Memorize(past_actions, id)
    /\ owners' = [owners EXCEPT !.states = DequeAppend(@, c)]
    /\ callers' = [callers EXCEPT ![c] =
           IF @.reward # None THEN [@ EXCEPT !.pc = "push"]
           ELSE [@ EXCEPT !.pc = "idle", !.state = None]]
    /\ race' = Stepped(c)
    /\ UNCHANGED <<state_action_values, state_action_visits, dtype,
                   past_returns, gamma, file, call, history>>

\* if reward is not None: self._past_returns.append(reward)
PushReward(c) ==
    /\ callers[c].pc = "push"
    /\ past_returns' = DequeAppend(past_returns, callers[c].reward[1])
    /\ owners' = [owners EXCEPT !.returns = DequeAppend(@, c)]
    /\ callers' = [callers EXCEPT ![c].pc = "update"]
    /\ race' = Stepped(c)
    /\ UNCHANGED <<state_action_values, state_action_visits, dtype,
                   past_states, past_actions, gamma, file, call, history>>

\* self._update(terminate): the call raises, or the tables are updated
\* and the oldest reward is popped.
RunUpdate(c) ==
    /\ callers[c].pc = "update"
    /\ LET upd == Update(callers[c].terminate, past_states, past_actions,
                         past_returns)
           ok == upd.error = ""
           pos == IF callers[c].terminate THEN Len(past_states) ELSE 1
       IN  /\ state_action_values' = upd.values
           /\ state_action_visits' = upd.visits
           /\ past_returns' = upd.returns
           /\ owners' = IF ok THEN [owners EXCEPT !.returns = Tail(@)]
                        ELSE owners
           /\ callers' = [callers EXCEPT ![c] =
                  IF ~ok THEN [Idle EXCEPT !.pc = "failed",
                                          !.begun = callers[c].begun]
                  ELSE IF @.terminate THEN [@ EXCEPT !.pc = "clear"]
                  ELSE [@ EXCEPT !.pc = "idle", !.state = None,
                                 !.reward = None]]
           /\ race' = [Stepped(c) EXCEPT
                  !.mixed = @ \/ (ok /\ owners.states[pos]
                                           # Head(owners.returns)),
                  !.failed = @ \/ ~ok]
    /\ UNCHANGED <<dtype, past_states, past_actions, gamma, file, call,
                   history>>

\* if terminate: self._clear_cache()
ClearBuffers(c) ==
    /\ callers[c].pc = "clear"
    /\ past_states' = ClearCache(TRUE, past_states)
    /\ past_actions' = ClearCache(TRUE, past_actions)
    /\ past_returns' = ClearCache(TRUE, past_returns)
    /\ owners' = [states |-> ClearCache(TRUE, owners.states),
                  returns |-> ClearCache(TRUE, owners.returns)]
    /\ callers' = [callers EXCEPT ![c] =
           [Idle EXCEPT !.pc = "done", !.begun = callers[c].begun]]
    /\ race' = [Stepped(c) EXCEPT
           !.stolen = @ \/ \E i \in 1 .. Len(owners.states) :
                                owners.states[i] # c]
    /\ UNCHANGED <<state_action_values, state_action_visits, dtype, gamma,
                   file, call, history>>

\* Two callers, each making the calls of one well-formed episode on the
\* same agent, their steps in any order.
NextRace ==
    \E c \in Callers :
        \/ Begin(c)
        \/ RecordPair(c)
        \/ PushReward(c)
        \/ RunUpdate(c)
        \/ ClearBuffers(c)

SpecRace == Init /\ [][NextRace]_vars

(* ----------------------------------------------------------------- claims *)

\* The last call is an observe_and_act call.
Observed == call.op = "observe_and_act"

\* The position in the tables of the pair recorded last.
LastCell ==
    Index(past_states[Len(past_states)][1], past_states[Len(past_states)][2],
          past_actions[Len(past_actions)])

\* The tables after one update of cell c towards target, all else unchanged.
UpdatedTo(c, target) ==
    /\ state_action_visits' = Store(state_action_visits, 0, c, N(c) + 1)
    /\ state_action_values' =
           Store(state_action_values, Zero, c,
                 RAdd(Q(c), RDivInt(RSub(target, Q(c)), N(c) + 1)))

\* A non-terminating reward-carrying call made with a pair held updates
\* that pair towards r + gamma * Q[s', a'], Q as it was before the call.
TDStepUpdatesOlderPair ==
    (/\ Observed'
     /\ call'.reward # None
     /\ ~call'.terminate
     /\ Len(past_states) >= 1)
    => /\ call'.error = ""
       /\ UpdatedTo(LastCell,
                    RAdd(FromInt(call'.reward[1]),
                         RMul(gamma, Q(Idx(call'.state[1][1],
                                           call'.state[1][2],
                                           call'.ret[1])))))

TerminalStepUpdatesLastPair ==
    (/\ Observed'
     /\ call'.reward # None
     /\ call'.terminate
     /\ Len(past_states) >= 1)
    => /\ call'.error = ""
       /\ UpdatedTo(LastCell, FromInt(call'.reward[1]))

AppliedCount(c) == IF c \in DOMAIN applied THEN applied[c].n ELSE 0
AppliedSum(c) == IF c \in DOMAIN applied THEN applied[c].sum ELSE Zero

\* C3: while every call has returned normally, Q of each cell with N > 0
\* is the arithmetic mean of the N targets applied to the cell (r for a
\* terminal update, r + gamma * Q[s', a'] as read at the update otherwise),
\* and Q is 0 where N is 0.
C3_SampleMean ==
    failures = 0 =>
        \A c \in Cells :
            IF N(c) > 0
            THEN /\ AppliedCount(c) = N(c)
                 /\ Q(c) = RDivInt(AppliedSum(c), N(c))
            ELSE Q(c) = Zero

\* C3's case: a cell updated twice, with targets 1 and 0, holds 1/2.
C3_Witness ==
    /\ failures = 0
    /\ \E c \in Cells :
           /\ N(c) = 2
           /\ AppliedSum(c) = One
           /\ Q(c) = <<1, 2>>

\* The estimates of the actions of a state, by action id: Q[d, p, :].
Row(state) == [a \in 1 .. NActions |-> Q(Idx(state[1], state[2], a - 1))]

\* The visits of a state, summed over its actions.
StateVisits(state) ==
    SeqSum([a \in 1 .. NActions |-> N(Idx(state[1], state[2], a - 1))])

\* C4: take_action(state, explore=False) returns the action with the
\* smallest id among those maximizing Q[d, p, a] over the action ids of
\* that state.
C4_GreedyIsRowArgMax ==
    (call.op = "take_action" /\ ~call.explore)
    => call.ret = Some(ArgMax(Row(call.state[1])))

\* C5: the exploration probability take_action computes for state (d, p)
\* is n_0 / (n_0 + V), V being the visits of that state summed over its
\* actions.
C5_EpsilonOfStateVisits ==
    call.op = "take_action"
    => call.epsilon = Frac(N0, N0 + StateVisits(call.state[1]))

\* C6: a terminating observe_and_act call that returns leaves the three
\* buffers empty and returns None, and the non-terminating call after it
\* leaves a window that holds its own pair only.
C6_TerminationClears ==
    [][/\ (Observed' /\ call'.terminate /\ call'.error = "")
          => /\ past_states' = <<>>
             /\ past_actions' = <<>>
             /\ past_returns' = <<>>
             /\ call'.ret = None
       /\ (/\ Observed /\ call.terminate /\ call.error = ""
           /\ Observed' /\ ~call'.terminate)
          => /\ past_states' = <<call'.state[1]>>
             /\ Len(past_actions') = 1
             /\ call'.error = "" => past_actions' = call'.ret]_vars

\* C6's case: a terminating call with a reward, made with two pairs held,
\* has returned.
C6_Witness ==
    /\ Observed /\ call.terminate /\ call.reward # None
    /\ call.held = 2 /\ call.popped # None /\ call.error = ""
    /\ past_states = <<>>

\* C7: take_action changes neither table nor buffer; an observe_and_act
\* call without reward that does not terminate only appends its pair to
\* the history; a terminating call without reward changes no entry of Q
\* and N; and Q and N change only in a reward-carrying call that returns.
C7_OnlyUpdatesWrite ==
    [][/\ call'.op = "take_action" => UNCHANGED agent
       /\ (Observed' /\ call'.reward = None /\ ~call'.terminate)
          => /\ UNCHANGED <<state_action_values, state_action_visits,
                            past_returns>>
             /\ call'.error = ""
             /\ past_states' = DequeAppend(past_states, call'.state[1])
             /\ past_actions' = DequeAppend(past_actions, call'.ret[1])
       /\ (Observed' /\ call'.reward = None /\ call'.terminate)
          => /\ UNCHANGED <<state_action_values, state_action_visits>>
             /\ past_states' = <<>>
       /\ (\/ state_action_values' # state_action_values
           \/ state_action_visits' # state_action_visits)
          => (Observed' /\ call'.reward # None /\ call'.error = "")]_vars

\* C7's case: take_action has run, exploring, on an agent that holds a
\* pair and has a visited state whose estimate is not zero.
C7_Witness ==
    /\ call.op = "take_action" /\ call.explore
    /\ past_states # <<>>
    /\ state_action_visits # Zeros
    /\ state_action_values # Zeros

\* The sum of all entries of N.
RECURSIVE SumOver(_, _)
SumOver(arr, cells) ==
    IF cells = {} THEN 0
    ELSE LET c == CHOOSE x \in cells : TRUE
         IN  arr[c] + SumOver(arr, cells \ {c})
TotalVisits == SumOver(state_action_visits, DOMAIN state_action_visits)

\* C8: while every call returns normally, each reward-carrying call does
\* exactly one update, which pops the reward passed in that call, a call
\* without reward does none, and no reward is pending after a call.
C8_OneRewardPerUpdate ==
    [][(Observed' /\ failures' = 0)
       => /\ past_returns' = <<>>
          /\ call'.popped = call'.reward
          /\ TotalVisits' = TotalVisits
                            + (IF call'.reward = None THEN 0 ELSE 1)]_vars

\* C8's case: a non-terminating call with a reward has returned, no call
\* having failed, and two updates have been made.
C8_Witness ==
    /\ Observed /\ call.reward # None /\ ~call.terminate /\ call.error = ""
    /\ failures = 0
    /\ TotalVisits = 2

\* C9: after construction every entry of Q and N is 0 and the buffers are
\* empty; while every call has returned normally, N of each cell is the
\* number of updates that targeted it, and the entries of N sum to the
\* number of reward-carrying calls that have returned.
C9_VisitsCountUpdates ==
    /\ call.op = "__init__"
       => /\ \A c \in Cells : Q(c) = Zero /\ N(c) = 0
          /\ past_states = <<>> /\ past_actions = <<>> /\ past_returns = <<>>
    /\ failures = 0
       => /\ \A c \in Cells : N(c) = AppliedCount(c)
          /\ TotalVisits = rewardCalls

\* C9's case: two updates, of two cells, one by a non-terminating call and
\* one by a terminating call, no call having failed.
C9_Witness ==
    /\ failures = 0 /\ rewardCalls = 2
    /\ Observed /\ call.terminate /\ call.held = 2
    /\ Cardinality({c \in Cells : N(c) = 1}) = 2

\* C10: what load makes of the file save wrote has the tables of the
\* saving agent as they were before save, and empty buffers; save leaves
\* the agent's tables as they were and empties its buffers; and load
\* returns what it makes of the file.
C10_SaveLoadRoundTrip ==
    [][/\ call'.op = "save"
          => /\ file' # None
             /\ LET a == Loaded(file'[1])
                IN  /\ a.state_action_values = state_action_values
                    /\ a.state_action_visits = state_action_visits
                    /\ a.past_states = <<>>
                    /\ a.past_actions = <<>>
                    /\ a.past_returns = <<>>
             /\ UNCHANGED <<state_action_values, state_action_visits>>
             /\ past_states' = <<>>
             /\ past_actions' = <<>>
             /\ past_returns' = <<>>
       /\ call'.op = "load"
          => /\ LET a == Loaded(file[1])
                IN  /\ state_action_values' = a.state_action_values
                    /\ state_action_visits' = a.state_action_visits
             /\ past_states' = <<>>
             /\ past_actions' = <<>>
             /\ past_returns' = <<>>]_vars

\* C10's case: load has replaced an agent that held a pair by the agent of
\* a file that save wrote when a cell was visited and its estimate was not
\* zero.
C10_Witness ==
    /\ call.op = "load"
    /\ call.held > 0
    /\ state_action_visits # Zeros
    /\ state_action_values # Zeros

\* C11: a reward-carrying call made with an empty history (terminating, or
\* not terminating, where only the pair just recorded is present) raises
\* an error instead of returning, and changes no entry of Q and N.
C11_NoHistoryRaises ==
    [][(Observed' /\ call'.reward # None /\ past_states = <<>>)
       => /\ call'.error = "IndexError"
          /\ call'.ret = None
          /\ call'.popped = None
          /\ failures' = failures + 1
          /\ UNCHANGED <<state_action_values, state_action_visits>>]_vars

\* C11's case: a reward-carrying terminating call made with an empty
\* history has raised, on an agent whose tables are not zero.
C11_Witness ==
    /\ Observed /\ call.reward # None /\ call.terminate /\ call.held = 0
    /\ call.error = "IndexError"
    /\ state_action_visits # Zeros
    /\ state_action_values # Zeros

\* The state is one of the tables: dealer in 0..10 and player in 0..21.
InBounds(state) ==
    /\ state[1] \in 0 .. (DealerDim - 1)
    /\ state[2] \in 0 .. (PlayerDim - 1)

\* C12: a non-terminating observe_and_act call or a take_action call given
\* a state outside the tables raises an out-of-bounds error, and no state
\* outside the tables is ever held in the history.
C12_OutOfRangeStateRaises ==
    /\ (/\ call.op \in {"observe_and_act", "take_action"}
        /\ call.state # None
        /\ ~call.terminate
        /\ ~InBounds(call.state[1]))
       => (call.error = "IndexError" /\ call.ret = None)
    /\ \A i \in 1 .. Len(past_states) : InBounds(past_states[i])

\* The items of a history a recording keeps: all of them, or all but the
\* oldest when the history is full.
Kept(dq) == IF Len(dq) = MaxLenDeque THEN Tail(dq) ELSE dq

\* C13: the state and action histories always have the same length, at
\* most 2, and the pending-reward queue at most 2 items; a call that
\* records a pair puts its state and its action last in both histories
\* and, when they are full, drops exactly the oldest item of both, so
\* that equal positions hold the same pair in recording order; no other
\* call changes the histories except to empty both.
C13_AlignedWindow ==
    /\ [](/\ Len(past_states) = Len(past_actions)
          /\ Len(past_states) <= MaxLenDeque
          /\ Len(past_returns) <= MaxLenDeque)
    /\ [][IF Observed' /\ ~call'.terminate
          THEN /\ past_states' = Kept(past_states) \o <<call'.state[1]>>
               /\ \E a \in ActionIds :
                      /\ past_actions' = Kept(past_actions) \o <<a>>
                      /\ call'.error = "" => call'.ret = Some(a)
          ELSE \/ UNCHANGED <<past_states, past_actions>>
               \/ past_states' = <<>> /\ past_actions' = <<>>]_vars

\* C13's case: a third pair has been recorded into full histories that
\* now hold two different pairs, while two rewards are pending.
C13_Witness ==
    /\ Observed /\ ~call.terminate /\ call.held = MaxLenDeque
    /\ Len(past_states) = MaxLenDeque
    /\ past_states[1] # past_states[2]
    /\ past_actions[1] # past_actions[2]
    /\ Len(past_returns) = MaxLenDeque

\* C14: in a well-formed episode every reward-carrying call makes exactly
\* one update, of the pair recorded last before it and with the reward it
\* carries; that pair is the one whose number among the episode's pairs
\* is the number of the update, so the i-th pair is updated once, by the
\* (i+1)-th call; when the episode has terminated, its updates are as
\* many as its pairs.
C14_EveryPairUpdatedOnce ==
    /\ [][(Observed' /\ episode'.wellFormed /\ call'.reward # None)
          => /\ call'.error = ""
             /\ call'.popped = call'.reward
             /\ state_action_visits' =
                    Store(state_action_visits, 0, LastCell, N(LastCell) + 1)
             /\ \A c \in DOMAIN state_action_values'
                           \cup DOMAIN state_action_values :
                    c # LastCell
                        => Elem(state_action_values', Zero, c) = Q(c)
             /\ episode.pairs = episode.updates + 1
             /\ episode'.updates = episode.pairs]_vars
    /\ [](episode.wellFormed /\ episode.done
              => episode.pairs >= 1 /\ episode.updates = episode.pairs)

\* C14's case: a well-formed episode of two recorded pairs has terminated
\* after updating two different pairs.
C14_Witness ==
    /\ Observed /\ call.terminate /\ call.error = ""
    /\ episode.wellFormed /\ episode.done /\ episode.pairs = 2
    /\ Cardinality(DOMAIN state_action_visits) = 2

\* C15 as stated: the reward of every call that raised is consumed by the
\* next update.  Before the first update every pending reward was pushed
\* by a call that raised, so the first update pops each of them.
C15_AsStated ==
    [][(Observed' /\ call'.reward # None /\ call'.error = ""
           /\ rewardCalls = 0)
       => \A i \in 1 .. Len(past_returns) :
              call'.popped = Some(past_returns[i])]_vars

\* C15: a reward-carrying call that raises leaves the reward it pushed in
\* the queue, after the rewards already there, and leaves the histories
\* as they were (terminating) or with the pair it recorded (not
\* terminating).  While the queue is not empty its newest item is the
\* reward of the latest reward-carrying call: an update made then pops
\* that reward, not the one its call carries, and leaves the reward of
\* its call as the only item; the queue is emptied only by a terminating
\* call that returns.
C15_StaleRewardShifts ==
    [][/\ (Observed' /\ call'.reward # None /\ call'.error # "")
          => /\ past_returns' = Kept(past_returns) \o <<call'.reward[1]>>
             /\ call'.popped = None
             /\ IF call'.terminate
                THEN UNCHANGED <<past_states, past_actions>>
                ELSE past_states' = Kept(past_states) \o <<call'.state[1]>>
       /\ (Observed' /\ call'.reward # None /\ call'.error = ""
              /\ past_returns # <<>>)
          => /\ call'.popped = Some(past_returns[Len(past_returns)])
             /\ past_returns' = IF call'.terminate THEN <<>>
                                ELSE <<call'.reward[1]>>
       /\ (Observed' /\ call'.reward = None /\ past_returns # <<>>)
          => (past_returns' = past_returns \/ call'.terminate)
       /\ (past_returns # <<>> /\ past_returns' = <<>>)
          => (Observed' /\ call'.terminate /\ call'.error = "")]_vars

\* C15's case: after a call that raised, two updates have each popped a
\* reward that is not the one their call carried (both updated cells
\* hold a value that is not the target passed for them), and the reward
\* of the second is left pending.
C15_Witness ==
    /\ Observed /\ call.error = "" /\ ~call.terminate
    /\ failures = 1 /\ rewardCalls = 2
    /\ call.popped # None /\ call.popped # call.reward
    /\ past_returns = <<call.reward[1]>>
    /\ Cardinality({c \in DOMAIN state_action_visits :
                       N(c) = 1 /\ Q(c) # AppliedSum(c)}) = 2

Unaccounted(c) == N(c) - AppliedCount(c)

\* C17: a non-terminating reward-carrying call made while the pair
\* recorded last is within the tables, with a state that take_action
\* accepts but whose dealer card or player sum is past the tables, raises
\* after it has popped a reward and incremented N of the held pair: that
\* N is one higher, no other N and no Q has changed, and no target was
\* averaged for the increment; an increment of N that no averaged target
\* accounts for is never made up for.
C17_VisitCountedWithoutUpdate ==
    [][/\ (/\ Observed' /\ call'.reward # None /\ ~call'.terminate
           /\ past_states # <<>>
           /\ InBounds(past_states[Len(past_states)])
           /\ ~TakeRaises(call'.state[1])
           /\ (call'.state[1][1] > DealerDim - 1
                   \/ call'.state[1][2] > PlayerDim - 1))
          => /\ call'.error = "IndexError"
             /\ call'.popped =
                    Some(Head(Kept(past_returns) \o <<call'.reward[1]>>))
             /\ past_returns' = Tail(Kept(past_returns)
                                         \o <<call'.reward[1]>>)
             /\ state_action_visits' =
                    Store(state_action_visits, 0, LastCell, N(LastCell) + 1)
             /\ UNCHANGED state_action_values
             /\ UNCHANGED applied
       /\ \A c \in DOMAIN state_action_visits :
              Unaccounted(c) > 0 => Unaccounted(c)' >= Unaccounted(c)]_vars

\* C17's case: a call whose state is past the tables has raised after
\* popping its reward, and the pair held before it, which is within the
\* tables, has N = 1 with no target averaged and Q still 0.
C17_Witness ==
    /\ Observed /\ call.reward # None /\ ~call.terminate
    /\ call.error = "IndexError" /\ call.popped # None
    /\ Len(past_states) = 2
    /\ InBounds(past_states[1]) /\ ~InBounds(past_states[2])
    /\ LET c == Index(past_states[1][1], past_states[1][2], past_actions[1])
       IN  N(c) = 1 /\ AppliedCount(c) = 0 /\ Q(c) = Zero

\* C18: while no caller has taken a step during the episode of the other,
\* no update has paired a reward with a pair of another caller, no
\* termination has cleared a pair of another caller, no call has raised,
\* and every pair and reward held belongs to a caller whose episode is
\* under way.
C18_SerialCallersSafe ==
    ~race.interleaved
        => /\ ~race.mixed /\ ~race.stolen /\ ~race.failed
           /\ \A i \in 1 .. Len(owners.states) : Busy(owners.states[i])
           /\ \A i \in 1 .. Len(owners.returns) : Busy(owners.returns[i])

\* C18's case: the steps of two callers have interleaved, an update has
\* paired the reward of one with the pair of the other, a termination has
\* cleared a pair of the other caller, and a reward-carrying call of a
\* caller has then raised for lack of history.
C18_Witness ==
    /\ race.interleaved
    /\ race.mixed /\ race.stolen /\ race.failed
    /\ \E c \in Callers : callers[c].pc = "failed"

====
